---- MODULE Spec2Model ----
(***************************************************************************)
(* The conversation prompt-assembly engine: SeparatorStyle, Conversation   *)
(* (get_prompt, append_message, copy, dict), the template table            *)
(* conv_templates and get_conv_template.                                   *)
(*                                                                         *)
(* Python objects live on a heap: a Conversation object refers to its      *)
(* messages list, the list refers to its entries (the inner [role,         *)
(* message] lists).  Object identity is the index in the heap sequence.    *)
(* Python strings are sequences of one-character strings, so that rstrip,  *)
(* endswith and concatenation are computed character by character.         *)
(***************************************************************************)
EXTENDS Integers, Sequences, FiniteSets, TLC

VARIABLES
    convs,           \* heap of Conversation objects: id -> fields
    lists,           \* heap of messages lists: id -> sequence of entry ids
    entries,         \* heap of [role, message] inner lists: id -> <<role, message>>
    conv_templates,  \* the module-level dict, in insertion order
    held,            \* Conversation ids the callers hold (lookup results, copies)
    returned,        \* the references get_conv_template returned, in call order
    snap,            \* the dictionary the latest dict() call returned
    last,            \* the outcome of the latest call
    prev             \* the outcome before it, when both were get_prompt on one object

vars == <<convs, lists, entries, conv_templates, held, returned, snap, last, prev>>

heap == <<convs, lists, entries>>

-----------------------------------------------------------------------------
(* Bounds of the model *)

MaxConvs == 4
MaxEntries == 2
ScenarioLen == 5

-----------------------------------------------------------------------------
(* Python values *)

\* None: not a character sequence (its element is not one character)
None == <<"None">>

\* the marker of a raised TypeError (str + None) while an expression is evaluated
TypeError == <<"TypeError">>

\* truth value of a str-or-None: None and "" are false
Truthy(v) == v # None /\ v # <<>>

\* a + b on strings: concatenating None raises TypeError, which propagates
Add(a, b) ==
    IF a \in {TypeError, None} \/ b \in {TypeError, None} THEN TypeError ELSE a \o b

\* str.isspace for one character, as str.rstrip() with no argument uses it
IsSpace(ch) == ch \in {" ", "\t", "\n", "\r", "\f"}

RECURSIVE rstrip(_)
rstrip(s) ==
    IF s # <<>> /\ IsSpace(s[Len(s)]) THEN rstrip(SubSeq(s, 1, Len(s) - 1)) ELSE s

endswith(s, suffix) ==
    /\ Len(suffix) <= Len(s)
    /\ SubSeq(s, Len(s) - Len(suffix) + 1, Len(s)) = suffix

-----------------------------------------------------------------------------
(* String literals of the source *)

Empty == <<>>

Space == <<" ">>

Newline == <<"\n">>

EOS == <<"<", "/", "s", ">">>

ColonSpace == <<":", " ">>

Colon == <<":">>

USER == <<"U", "S", "E", "R">>

ASSISTANT == <<"A", "S", "S", "I", "S", "T", "A", "N", "T">>

NamePlain == <<"p", "l", "a", "i", "n">>

NameV1 == <<"v", "1">>

NameV0 == <<"v", "0">>

SysVicuna ==
    <<"A", " ", "c", "h", "a", "t", " ", "b", "e", "t", "w", "e", "e", "n", " ", "a",
      " ", "c", "u", "r", "i", "o", "u", "s", " ", "u", "s", "e", "r", " ", "a", "n",
      "d", " ", "a", "n", " ", "a", "r", "t", "i", "f", "i", "c", "i", "a", "l", " ",
      "i", "n", "t", "e", "l", "l", "i", "g", "e", "n", "c", "e", " ", "a", "s", "s",
      "i", "s", "t", "a", "n", "t", ".", " ", "T", "h", "e", " ", "a", "s", "s", "i",
      "s", "t", "a", "n", "t", " ", "g", "i", "v", "e", "s", " ", "h", "e", "l", "p",
      "f", "u", "l", ",", " ", "d", "e", "t", "a", "i", "l", "e", "d", ",", " ", "a",
      "n", "d", " ", "p", "o", "l", "i", "t", "e", " ", "a", "n", "s", "w", "e", "r",
      "s", " ", "t", "o", " ", "t", "h", "e", " ", "u", "s", "e", "r", "'", "s", " ",
      "q", "u", "e", "s", "t", "i", "o", "n", "s", ".">>

Sep2RequiredMsg ==
    <<"S", "e", "p", "a", "r", "a", "t", "o", "r", "S", "t", "y", "l", "e", ".", "T",
      "W", "O", "/", "V", "I", "C", "U", "N", "A", " ", "r", "e", "q", "u", "i", "r",
      "e", "s", " ", "b", "o", "t", "h", " ", "s", "e", "p", " ", "(", "s", "e", "p",
      "1", ")", " ", "a", "n", "d", " ", "s", "e", "p", "2", " ", "t", "o", " ", "b",
      "e", " ", "d", "e", "f", "i", "n", "e", "d", ".">>

UnknownPrefix ==
    <<"U", "n", "k", "n", "o", "w", "n", " ", "c", "o", "n", "v", "e", "r", "s", "a",
      "t", "i", "o", "n", " ", "t", "e", "m", "p", "l", "a", "t", "e", ":", " ">>

AvailableInfix ==
    <<".", " ", "A", "v", "a", "i", "l", "a", "b", "l", "e", " ", "t", "e", "m", "p",
      "l", "a", "t", "e", "s", ":", " ">>

Hi == <<"H", "i">>

Sys == <<"S", "y", "s">>

HiSpace == <<"H", "i", " ">>

HiEOS == <<"H", "i", "<", "/", "s", ">">>

Image == <<"<", "i", "m", "a", "g", "e", ">">>

ARedBlock == <<"A", " ", "r", "e", "d", " ", "b", "l", "o", "c", "k", ".">>

ImageDescribe ==
    <<"<", "i", "m", "a", "g", "e", ">", "\n", "D", "e", "s", "c", "r", "i", "b", "e",
      " ", "i", "t", ".">>

ItIsRed == <<"I", "t", " ", "i", "s", " ", "r", "e", "d", ".">>

WhatShape == <<"W", "h", "a", "t", " ", "s", "h", "a", "p", "e", "?">>

ItIsSquare == <<"I", "t", " ", "i", "s", " ", "s", "q", "u", "a", "r", "e", ".">>

-----------------------------------------------------------------------------
(* class SeparatorStyle(Enum): the members, numbered by auto() *)

SINGLE == 1
TWO == 2
MPT == 3
PLAIN == 4
LLAMA_2 == 5
VICUNA == 6
CHATML == 7
CHATGLM == 8
DOLLY == 9
RWKV == 10
PHOENIX == 11
ROBIN == 12
FALCON_CHAT == 13

SeparatorStyle ==
    {SINGLE, TWO, MPT, PLAIN, LLAMA_2, VICUNA, CHATML, CHATGLM, DOLLY, RWKV,
     PHOENIX, ROBIN, FALCON_CHAT}

\* mutant: VICUNA declared as an alias of TWO (the same value), so that its
\* name is the name of TWO
StyleName_alias(style) ==
    CASE style = SINGLE -> "SINGLE"
      [] style \in {TWO, VICUNA} -> "TWO"
      [] style = MPT -> "MPT"
      [] style = PLAIN -> "PLAIN"
      [] style = LLAMA_2 -> "LLAMA_2"
      [] style = CHATML -> "CHATML"
      [] style = CHATGLM -> "CHATGLM"
      [] style = DOLLY -> "DOLLY"
      [] style = RWKV -> "RWKV"
      [] style = PHOENIX -> "PHOENIX"
      [] style = ROBIN -> "ROBIN"
      [] style = FALCON_CHAT -> "FALCON_CHAT"

\* SeparatorStyle.<member>.name
StyleName(style) ==
    CASE style = SINGLE -> "SINGLE"
      [] style = TWO -> "TWO"
      [] style = MPT -> "MPT"
      [] style = PLAIN -> "PLAIN"
      [] style = LLAMA_2 -> "LLAMA_2"
      [] style = VICUNA -> "VICUNA"
      [] style = CHATML -> "CHATML"
      [] style = CHATGLM -> "CHATGLM"
      [] style = DOLLY -> "DOLLY"
      [] style = RWKV -> "RWKV"
      [] style = PHOENIX -> "PHOENIX"
      [] style = ROBIN -> "ROBIN"
      [] style = FALCON_CHAT -> "FALCON_CHAT"

-----------------------------------------------------------------------------
(* Conversation.get_prompt, on the field values of one Conversation.        *)
(* messages is the sequence of <<role, message>> pairs of the history and   *)
(* i is the zero-based index of enumerate().                                *)

\* mutant: the branch test forgets the alias
IsTwoStyle_only_two(style) == style = TWO

\* the branch test of get_prompt
IsTwoStyle(style) == style = TWO \/ style = VICUNA

\* mutant: the check looks at seps[0]
Sep2Missing_checks_sep(seps) == seps[1] = None

\* seps[1] is None
Sep2Missing(seps) == seps[2] = None

\* mutant: the separators of the two speakers exchanged
TwoSep_swapped(seps, i) == seps[((i + 1) % 2) + 1]

\* seps[i % 2] of seps = [self.sep, self.sep2]
TwoSep(seps, i) == seps[(i % 2) + 1]

\* ret = self.system + seps[0] if self.system else ""
TwoStart(system, seps) == IF Truthy(system) THEN Add(system, seps[1]) ELSE Empty

\* mutant: the separator chosen by the role label, sep after USER and sep2
\* after any other role, instead of by the index
TwoTurn_by_role(ret, i, role, message, seps) ==
    IF Truthy(message)
    THEN Add(Add(ret, role \o ColonSpace \o message),
             IF role = USER THEN seps[1] ELSE seps[2])
    ELSE Add(ret, role \o Colon)

\* mutant: the open marker is put after ret.rstrip()
TwoTurn_strips(ret, i, role, message, seps) ==
    IF Truthy(message)
    THEN Add(Add(ret, role \o ColonSpace \o message), TwoSep(seps, i))
    ELSE IF ret = TypeError THEN TypeError ELSE Add(rstrip(ret), role \o Colon)

\* one pass of the loop of the TWO/VICUNA branch
TwoTurn(ret, i, role, message, seps) ==
    IF Truthy(message)
    THEN Add(Add(ret, role \o ColonSpace \o message), TwoSep(seps, i))
    ELSE Add(ret, role \o Colon)

RECURSIVE TwoLoop(_, _, _, _)
TwoLoop(ret, i, messages, seps) ==
    IF i >= Len(messages)
    THEN ret
    ELSE TwoLoop(TwoTurn(ret, i, messages[i + 1][1], messages[i + 1][2], seps),
                 i + 1, messages, seps)

\* ret = ""; if self.system: ret += self.system; if not CHATML: ret += self.sep
DefaultStart(system, style, sep) ==
    IF Truthy(system)
    THEN IF style # CHATML THEN Add(system, sep) ELSE system
    ELSE Empty

\* mutant: the loop does not test the content and concatenates it as it is
DefaultTurn_untested(ret, i, n, role, message, style, sep) ==
    IF style = CHATML
    THEN Add(ret, Add(Add(Add(role \o Newline, message), sep),
                      IF i < n - 1 THEN Newline ELSE Empty))
    ELSE Add(ret, Add(Add(role, message), sep))

\* one pass of the loop of the other styles; n is len(self.messages)
DefaultTurn(ret, i, n, role, message, style, sep) ==
    IF Truthy(message)
    THEN IF style = PLAIN
         THEN Add(ret, Add(role \o message, sep))
         ELSE IF style = CHATML
              THEN Add(ret, Add(Add(role \o Newline \o message, sep),
                                IF i < n - 1 THEN Newline ELSE Empty))
              ELSE Add(ret, Add(role \o message, sep))
    ELSE IF style = PLAIN
         THEN Add(ret, Add(role, sep))
         ELSE IF style = CHATML
              THEN Add(ret, role \o Newline)
              ELSE Add(ret, role)

RECURSIVE DefaultLoop(_, _, _, _, _)
DefaultLoop(ret, i, messages, style, sep) ==
    IF i >= Len(messages)
    THEN ret
    ELSE DefaultLoop(DefaultTurn(ret, i, Len(messages), messages[i + 1][1],
                                 messages[i + 1][2], style, sep),
                     i + 1, messages, style, sep)

\* mutant: the cleanup strips and appends nothing
PlainCleanup_strip_only(ret, style, sep) ==
    IF ret # TypeError /\ style = PLAIN /\ Truthy(sep) THEN rstrip(ret) ELSE ret

\* the final cleanup for PLAIN: rstrip, then one sep unless it is there
PlainCleanup(ret, style, sep) ==
    IF ret # TypeError /\ style = PLAIN /\ Truthy(sep)
    THEN IF endswith(rstrip(ret), sep) THEN rstrip(ret) ELSE rstrip(ret) \o sep
    ELSE ret

\* the outcome of a call: what it returned (kind "str") or raised
Returned(ret) ==
    IF ret = TypeError
    THEN [kind |-> "TypeError", val |-> Empty]
    ELSE [kind |-> "str", val |-> ret]

Raised(exc, msg) == [kind |-> exc, val |-> msg]

get_prompt(system, messages, style, sep, sep2) ==
    IF IsTwoStyle(style)
    THEN IF Sep2Missing(<<sep, sep2>>)
         THEN Raised("ValueError", Sep2RequiredMsg)
         ELSE Returned(TwoLoop(TwoStart(system, <<sep, sep2>>), 0, messages,
                               <<sep, sep2>>))
    ELSE Returned(PlainCleanup(DefaultLoop(DefaultStart(system, style, sep), 0,
                                           messages, style, sep),
                               style, sep))

-----------------------------------------------------------------------------
(* The module-level templates *)

\* the dataclass constructor: the fields as given; messages is the id of the list
Conversation(system, roles, messages, offset, sep_style, sep, sep2, stop_str, stop_token_ids) ==
    [system |-> system, roles |-> roles, messages |-> messages, offset |-> offset,
     sep_style |-> sep_style, sep |-> sep, sep2 |-> sep2, stop_str |-> stop_str,
     stop_token_ids |-> stop_token_ids]

\* conv_llava_plain = Conversation(...); its messages=[] is list 1, sep2 defaults
conv_llava_plain ==
    Conversation(Empty, <<Empty, Empty>>, 1, 0, PLAIN, Newline, None, None, None)

\* conv_vicuna_v1 = Conversation(...); its messages=[] is list 2
conv_vicuna_v1 ==
    Conversation(SysVicuna, <<USER, ASSISTANT>>, 2, 0, TWO, Space, EOS, EOS, None)

\* conv_templates = {"plain": conv_llava_plain, "v1": conv_vicuna_v1}
TemplateTable == <<[name |-> NamePlain, ref |-> 1], [name |-> NameV1, ref |-> 2]>>

\* default_conversation = conv_vicuna_v1: the name is bound to the object itself
default_conversation == 2

\* list(conv_templates.keys())
Keys == [i \in 1..Len(conv_templates) |-> conv_templates[i].name]

\* name in conv_templates
Registered(name) == \E i \in 1..Len(conv_templates) : conv_templates[i].name = name

\* conv_templates[name]
TemplateRef(name) ==
    conv_templates[CHOOSE i \in 1..Len(conv_templates) :
                       conv_templates[i].name = name].ref

\* the objects the template table refers to
Prototypes == {conv_templates[i].ref : i \in 1..Len(conv_templates)}

-----------------------------------------------------------------------------
(* Reading the heap *)

ConvIds == 1..Len(convs)

\* self.messages of Conversation c, as the sequence of its <<role, message>> pairs
History(c) ==
    [i \in 1..Len(lists[convs[c].messages]) |-> entries[lists[convs[c].messages][i]]]

\* the history a dictionary of dict() shows: it reads the list the dictionary holds
SnapHistory(d) == [i \in 1..Len(lists[d.messages]) |-> entries[lists[d.messages][i]]]

\* mutant: get_prompt skips the first self.offset turns
Prompt_from_offset(c) ==
    get_prompt(convs[c].system,
               SubSeq(History(c), convs[c].offset + 1, Len(History(c))),
               convs[c].sep_style, convs[c].sep, convs[c].sep2)

\* c.get_prompt() in the current state
Prompt(c) ==
    get_prompt(convs[c].system, History(c), convs[c].sep_style, convs[c].sep,
               convs[c].sep2)

-----------------------------------------------------------------------------
(* The operations, as the heap they leave and what they return or raise *)

\* mutant: the new turn is put in front of the list
append_message_front(c, role, message) ==
    [convs |-> convs,
     lists |-> [lists EXCEPT ![convs[c].messages] = <<Len(entries) + 1>> \o @],
     entries |-> Append(entries, <<role, message>>),
     ref |-> 0, kind |-> "None", val |-> Empty]

\* mutant: the append also counts the turn in offset
append_message_counts(c, role, message) ==
    [convs |-> [convs EXCEPT ![c].offset = @ + 1],
     lists |-> [lists EXCEPT ![convs[c].messages] = Append(@, Len(entries) + 1)],
     entries |-> Append(entries, <<role, message>>),
     ref |-> 0, kind |-> "None", val |-> Empty]

\* mutant: a role that is not one of self.roles is refused
append_message_validating(c, role, message) ==
    IF role \in {convs[c].roles[1], convs[c].roles[2]}
    THEN [convs |-> convs,
          lists |-> [lists EXCEPT ![convs[c].messages] = Append(@, Len(entries) + 1)],
          entries |-> Append(entries, <<role, message>>),
          ref |-> 0, kind |-> "None", val |-> Empty]
    ELSE [convs |-> convs, lists |-> lists, entries |-> entries, ref |-> 0,
          kind |-> "ValueError", val |-> role]

\* mutant: self.messages = self.messages + [[role, message]], a new list
\* bound to the field instead of an append to the list
append_message_rebinds(c, role, message) ==
    [convs |-> [convs EXCEPT ![c].messages = Len(lists) + 1],
     lists |-> Append(lists, Append(lists[convs[c].messages], Len(entries) + 1)),
     entries |-> Append(entries, <<role, message>>),
     ref |-> 0, kind |-> "None", val |-> Empty]

\* self.messages.append([role, message]): one new inner list, appended in place
append_message(c, role, message) ==
    [convs |-> convs,
     lists |-> [lists EXCEPT ![convs[c].messages] = Append(@, Len(entries) + 1)],
     entries |-> Append(entries, <<role, message>>),
     ref |-> 0, kind |-> "None", val |-> Empty]

\* copy.deepcopy(self): a new Conversation, a new messages list, new inner lists;
\* the strings and the roles tuple are immutable values
deepcopy(c) ==
    LET old == lists[convs[c].messages]
        base == Len(entries)
    IN [convs |-> Append(convs, [convs[c] EXCEPT !.messages = Len(lists) + 1]),
        lists |-> Append(lists, [i \in 1..Len(old) |-> base + i]),
        entries |-> entries \o [i \in 1..Len(old) |-> entries[old[i]]],
        ref |-> Len(convs) + 1, kind |-> "Conversation", val |-> Empty]

\* mutant: copy.copy(self), a new Conversation that shares the messages list
copy_shallow(c) ==
    [convs |-> Append(convs, convs[c]), lists |-> lists, entries |-> entries,
     ref |-> Len(convs) + 1, kind |-> "Conversation", val |-> Empty]

\* Conversation.copy
copy(c) == deepcopy(c)

\* Conversation.dict: the fields as they are, the style by its name
dict(c) ==
    [system |-> convs[c].system, roles |-> convs[c].roles,
     messages |-> convs[c].messages, offset |-> convs[c].offset,
     sep_style |-> StyleName(convs[c].sep_style), sep |-> convs[c].sep,
     sep2 |-> convs[c].sep2, stop_str |-> convs[c].stop_str,
     stop_token_ids |-> convs[c].stop_token_ids]

\* repr of a str without quotes or escapes in it
ReprStr(s) == <<"'">> \o s \o <<"'">>

RECURSIVE JoinRepr(_)
JoinRepr(keys) ==
    IF keys = <<>> THEN <<>>
    ELSE IF Len(keys) = 1 THEN ReprStr(keys[1])
    ELSE ReprStr(keys[1]) \o <<",", " ">> \o JoinRepr(Tail(keys))

\* repr of a list of str
ReprList(keys) == <<"[">> \o JoinRepr(keys) \o <<"]">>

\* f"Unknown conversation template: {name}. Available templates: {list(...)}"
UnknownTemplateMsg(name) == UnknownPrefix \o name \o AvailableInfix \o ReprList(Keys)

\* mutant: the lookup builds a Conversation from the fields of the template
\* with a new empty messages list
get_conv_template_fresh(name) ==
    IF ~Registered(name)
    THEN [convs |-> convs, lists |-> lists, entries |-> entries, ref |-> 0,
          kind |-> "ValueError", val |-> UnknownTemplateMsg(name)]
    ELSE [convs |-> Append(convs, [convs[TemplateRef(name)] EXCEPT
                                       !.messages = Len(lists) + 1]),
          lists |-> Append(lists, <<>>), entries |-> entries,
          ref |-> Len(convs) + 1, kind |-> "Conversation", val |-> Empty]

\* mutant: the template itself is returned, not a copy of it
get_conv_template_no_copy(name) ==
    IF ~Registered(name)
    THEN [convs |-> convs, lists |-> lists, entries |-> entries, ref |-> 0,
          kind |-> "ValueError", val |-> UnknownTemplateMsg(name)]
    ELSE [convs |-> convs, lists |-> lists, entries |-> entries,
          ref |-> TemplateRef(name), kind |-> "Conversation", val |-> Empty]

\* mutant: no membership test, the dict lookup raises KeyError(name)
get_conv_template_no_check(name) ==
    IF ~Registered(name)
    THEN [convs |-> convs, lists |-> lists, entries |-> entries, ref |-> 0,
          kind |-> "KeyError", val |-> ReprStr(name)]
    ELSE copy(TemplateRef(name))

get_conv_template(name) ==
    IF ~Registered(name)
    THEN [convs |-> convs, lists |-> lists, entries |-> entries, ref |-> 0,
          kind |-> "ValueError", val |-> UnknownTemplateMsg(name)]
    ELSE copy(TemplateRef(name))

\* conv_templates[name] = c: the table is a plain dict, so an assignment under
\* a key it has replaces the value in place, and a new key goes to the end
setitem(name, c) ==
    IF Registered(name)
    THEN [i \in 1..Len(conv_templates) |->
             IF conv_templates[i].name = name THEN [name |-> name, ref |-> c]
             ELSE conv_templates[i]]
    ELSE Append(conv_templates, [name |-> name, ref |-> c])

-----------------------------------------------------------------------------
(* The calls *)

\* no dictionary taken yet
NoDict == [messages |-> 0]

NoCall == [op |-> "none", self |-> 0, arg |-> Empty, kind |-> "None", val |-> Empty,
           ref |-> 0]

Call(op, self, arg, r) ==
    [op |-> op, self |-> self, arg |-> arg, kind |-> r.kind, val |-> r.val,
     ref |-> r.ref]

Init ==
    /\ convs = <<conv_llava_plain, conv_vicuna_v1>>
    /\ lists = <<<<>>, <<>>>>
    /\ entries = <<>>
    /\ conv_templates = TemplateTable
    /\ held = {}
    /\ returned = <<>>
    /\ snap = NoDict
    /\ last = NoCall
    /\ prev = NoCall

\* conv = get_conv_template(name)
Lookup(name) ==
    LET r == get_conv_template(name)
    IN /\ convs' = r.convs
       /\ lists' = r.lists
       /\ entries' = r.entries
       /\ held' = IF r.kind = "Conversation" THEN held \cup {r.ref} ELSE held
       /\ returned' = IF r.kind = "Conversation" THEN Append(returned, r.ref)
                      ELSE returned
       /\ last' = Call("get_conv_template", 0, name, r)
       /\ prev' = NoCall
       /\ UNCHANGED <<conv_templates, snap>>

\* conv_templates[name] = c
Register(name, c) ==
    /\ conv_templates' = setitem(name, c)
    /\ last' = [op |-> "setitem", self |-> 0, arg |-> name, kind |-> "None",
                val |-> None, ref |-> c]
    /\ prev' = NoCall
    /\ UNCHANGED <<convs, lists, entries, held, returned, snap>>

\* c.append_message(role, message)
AppendMessage(c, role, message) ==
    LET r == append_message(c, role, message)
    IN /\ convs' = r.convs
       /\ lists' = r.lists
       /\ entries' = r.entries
       /\ last' = Call("append_message", c, <<role, message>>, r)
       /\ prev' = NoCall
       /\ UNCHANGED <<conv_templates, held, returned, snap>>

\* mutant: the system prompt and its separator are joined in the field itself
\* (self.system += self.sep) instead of in the local ret
GetPrompt_writes_system(c) ==
    /\ last' = Call("get_prompt", c, Empty, Prompt(c) @@ [ref |-> 0])
    /\ prev' = IF last.op = "get_prompt" /\ last.self = c THEN last ELSE NoCall
    /\ convs' = [convs EXCEPT ![c].system =
                    IF Truthy(@) /\ convs[c].sep # None THEN @ \o convs[c].sep ELSE @]
    /\ UNCHANGED <<lists, entries, conv_templates, held, returned, snap>>

\* c.get_prompt(): reads the fields and writes none
GetPrompt(c) ==
    /\ last' = Call("get_prompt", c, Empty, Prompt(c) @@ [ref |-> 0])
    /\ prev' = IF last.op = "get_prompt" /\ last.self = c THEN last ELSE NoCall
    /\ UNCHANGED <<convs, lists, entries, conv_templates, held, returned, snap>>

\* b = c.copy()
Copy(c) ==
    LET r == copy(c)
    IN /\ convs' = r.convs
       /\ lists' = r.lists
       /\ entries' = r.entries
       /\ held' = held \cup {r.ref}
       /\ last' = Call("copy", c, Empty, r)
       /\ prev' = NoCall
       /\ UNCHANGED <<conv_templates, returned, snap>>

\* d = c.dict()
Dict(c) ==
    /\ snap' = dict(c)
    /\ last' = Call("dict", c, Empty, [kind |-> "dict", val |-> Empty, ref |-> 0])
    /\ prev' = NoCall
    /\ UNCHANGED <<convs, lists, entries, conv_templates, held, returned>>

-----------------------------------------------------------------------------
(* The catalog and its callers: lookups, and calls on what they returned *)

Names == {NamePlain, NameV1, NameV0}

\* what the callers of the catalog append: a question, and the prompt marker
Turns == {<<USER, Hi>>, <<ASSISTANT, None>>}

\* room on the bounded heap for a copy of c
RoomToCopy(c) ==
    /\ Len(convs) < MaxConvs
    /\ Len(entries) + Len(History(c)) <= MaxEntries

Next ==
    \/ \E name \in Names :
        /\ Registered(name) => RoomToCopy(TemplateRef(name))
        /\ Lookup(name)
    \/ \E c \in held, turn \in Turns :
        /\ Len(entries) < MaxEntries
        /\ AppendMessage(c, turn[1], turn[2])
    \/ \E c \in held : GetPrompt(c)
    \/ \E c \in held : RoomToCopy(c) /\ Copy(c)
    \/ \E c \in held : Dict(c)

Spec == Init /\ [][Next]_vars

-----------------------------------------------------------------------------
(* One Conversation built by its caller with any field values, and the calls *)
(* on it                                                                     *)

Systems == {Empty, Sys}
Seps == {None, Space, Newline}
Sep2s == {None, EOS}
Roles == {USER, ASSISTANT}
Contents == {None, Empty, Hi}

\* the fields get_prompt does not read: the defaults, and other values
Others ==
    {[roles |-> <<USER, ASSISTANT>>, offset |-> 0, stop_str |-> None,
      stop_token_ids |-> None],
     [roles |-> <<Empty, Empty>>, offset |-> 1, stop_str |-> EOS,
      stop_token_ids |-> <<2>>]}

InitPrompt ==
    /\ \E system \in Systems, style \in SeparatorStyle, sep \in Seps, sep2 \in Sep2s,
          o \in Others :
         convs = <<conv_llava_plain, conv_vicuna_v1,
                   Conversation(system, o.roles, 3, o.offset, style, sep, sep2,
                                o.stop_str, o.stop_token_ids)>>
    /\ lists = <<<<>>, <<>>, <<>>>>
    /\ entries = <<>>
    /\ conv_templates = TemplateTable
    /\ held = {3}
    /\ returned = <<>>
    /\ snap = NoDict
    /\ last = NoCall
    /\ prev = NoCall

NextPrompt ==
    \/ \E c \in held, role \in Roles, message \in Contents :
        /\ Len(entries) < MaxEntries
        /\ AppendMessage(c, role, message)
    \/ \E c \in held : GetPrompt(c)
    \/ \E c \in held : Dict(c)

SpecPrompt == InitPrompt /\ [][NextPrompt]_vars

-----------------------------------------------------------------------------
(* The two test runs of the source: one lookup, the appends of the test in  *)
(* any order and number, get_prompt                                         *)

\* the appends of the plain test
PlainTurns == {<<Empty, Image>>, <<Empty, ARedBlock>>}

\* the appends of the Vicuna v1 test, with v1_conv.roles[0] and [1]
V1Turns(c) ==
    {<<convs[c].roles[1], ImageDescribe>>, <<convs[c].roles[2], ItIsRed>>,
     <<convs[c].roles[1], WhatShape>>, <<convs[c].roles[2], ItIsSquare>>,
     <<convs[c].roles[2], None>>}

ScenarioTurns(c) == IF convs[c].sep_style = PLAIN THEN PlainTurns ELSE V1Turns(c)

NextScenario ==
    \/ \E name \in {NamePlain, NameV1} : returned = <<>> /\ Lookup(name)
    \/ \E c \in held : \E turn \in ScenarioTurns(c) :
        /\ Len(History(c)) < ScenarioLen
        /\ AppendMessage(c, turn[1], turn[2])
    \/ \E c \in held : GetPrompt(c)

SpecScenario == Init /\ [][NextScenario]_vars

-----------------------------------------------------------------------------
(* One Conversation of the plain style, with separators of whitespace and   *)
(* not, and contents that end in whitespace or in the separator text        *)

PlainSystems == {Empty, Sys}
PlainSeps == {None, Empty, Space, Newline, EOS}
PlainRoles == {Empty, USER}
PlainContents == {None, Hi, HiSpace, HiEOS}

InitPlain ==
    /\ \E system \in PlainSystems, sep \in PlainSeps :
         convs = <<conv_llava_plain, conv_vicuna_v1,
                   Conversation(system, <<Empty, Empty>>, 3, 0, PLAIN, sep, None,
                                None, None)>>
    /\ lists = <<<<>>, <<>>, <<>>>>
    /\ entries = <<>>
    /\ conv_templates = TemplateTable
    /\ held = {3}
    /\ returned = <<>>
    /\ snap = NoDict
    /\ last = NoCall
    /\ prev = NoCall

NextPlain ==
    \/ \E c \in held, role \in PlainRoles, message \in PlainContents :
        /\ Len(entries) < MaxEntries
        /\ AppendMessage(c, role, message)
    \/ \E c \in held : GetPrompt(c)

SpecPlain == InitPlain /\ [][NextPlain]_vars

-----------------------------------------------------------------------------
(* The template table written after the module is loaded: assignments to    *)
(* conv_templates, lookups, and appends on what the lookups returned        *)

NextRegister ==
    \/ \E name \in Names, c \in Prototypes \cup held : Register(name, c)
    \/ \E name \in Names :
        /\ Registered(name) => RoomToCopy(TemplateRef(name))
        /\ Lookup(name)
    \/ \E c \in held, turn \in Turns :
        /\ Len(entries) < MaxEntries
        /\ AppendMessage(c, turn[1], turn[2])

SpecRegister == Init /\ [][NextRegister]_vars

-----------------------------------------------------------------------------
(* Two Conversations built by their caller that differ in one field: the    *)
(* style TWO against its alias VICUNA, or one of the fields roles, offset,   *)
(* stop_str and stop_token_ids; the same turns appended to both             *)

\* the other name of the two-separator style
Alias(style) == IF style = TWO THEN VICUNA ELSE IF style = VICUNA THEN TWO ELSE style

\* the second Conversation: the first with the k-th of these fields changed
Twin(conv, k) ==
    CASE k = 1 -> [conv EXCEPT !.messages = 4, !.sep_style = Alias(@)]
      [] k = 2 -> [conv EXCEPT !.messages = 4, !.roles = <<Empty, Empty>>]
      [] k = 3 -> [conv EXCEPT !.messages = 4, !.offset = 1]
      [] k = 4 -> [conv EXCEPT !.messages = 4, !.stop_str = EOS]
      [] k = 5 -> [conv EXCEPT !.messages = 4, !.stop_token_ids = <<2>>]

InitPair ==
    /\ \E system \in Systems, style \in SeparatorStyle, sep \in Seps, sep2 \in Sep2s,
          k \in 1..5 :
         /\ k = 1 => IsTwoStyle(style)
         /\ convs = <<conv_llava_plain, conv_vicuna_v1,
                      Conversation(system, <<USER, ASSISTANT>>, 3, 0, style, sep, sep2,
                                   None, None),
                      Twin(Conversation(system, <<USER, ASSISTANT>>, 3, 0, style, sep,
                                        sep2, None, None), k)>>
    /\ lists = <<<<>>, <<>>, <<>>, <<>>>>
    /\ entries = <<>>
    /\ conv_templates = TemplateTable
    /\ held = {3, 4}
    /\ returned = <<>>
    /\ snap = NoDict
    /\ last = NoCall
    /\ prev = NoCall

\* the caller appends any turns to the first Conversation and the same turns,
\* in the same order, to the second
NextPair ==
    \/ \E turn \in Turns :
        /\ Len(History(3)) < MaxEntries
        /\ AppendMessage(3, turn[1], turn[2])
    \/ /\ Len(History(4)) < Len(History(3))
       /\ AppendMessage(4, History(3)[Len(History(4)) + 1][1],
                        History(3)[Len(History(4)) + 1][2])
    \/ \E c \in held : GetPrompt(c)

SpecPair == InitPair /\ [][NextPair]_vars

-----------------------------------------------------------------------------
(* The catalog with callers that also use default_conversation: appends and *)
(* prompts through it, lookups, and calls on what the lookups returned      *)

NextDefault ==
    \/ \E name \in Names :
        /\ Registered(name) => RoomToCopy(TemplateRef(name))
        /\ Lookup(name)
    \/ \E c \in held \cup {default_conversation}, turn \in Turns :
        /\ Len(entries) < MaxEntries
        /\ AppendMessage(c, turn[1], turn[2])
    \/ \E c \in held \cup {default_conversation} : GetPrompt(c)

SpecDefault == Init /\ [][NextDefault]_vars

-----------------------------------------------------------------------------
(* Properties *)

\* the objects get_conv_template has returned
ReturnedSet == {returned[i] : i \in 1..Len(returned)}

\* get_prompt was the latest call, on c
PromptedOn(c) == last.op = "get_prompt" /\ last.self = c

\* the history of the Vicuna v1 scenario
V1ScenarioHistory ==
    <<<<USER, ImageDescribe>>, <<ASSISTANT, ItIsRed>>, <<USER, WhatShape>>,
      <<ASSISTANT, ItIsSquare>>, <<ASSISTANT, None>>>>

\* the text the scenario expects after the system preamble
ExpectedV1Tail ==
    <<" ", "U", "S", "E", "R", ":", " ", "<", "i", "m", "a", "g", "e", ">", "\n", "D",
      "e", "s", "c", "r", "i", "b", "e", " ", "i", "t", ".", " ", "A", "S", "S", "I",
      "S", "T", "A", "N", "T", ":", " ", "I", "t", " ", "i", "s", " ", "r", "e", "d",
      ".", "<", "/", "s", ">", "U", "S", "E", "R", ":", " ", "W", "h", "a", "t", " ",
      "s", "h", "a", "p", "e", "?", " ", "A", "S", "S", "I", "S", "T", "A", "N", "T",
      ":", " ", "I", "t", " ", "i", "s", " ", "s", "q", "u", "a", "r", "e", ".", "<",
      "/", "s", ">", "A", "S", "S", "I", "S", "T", "A", "N", "T", ":">>

\* a clone of template "v1" holding the scenario's five turns, just assembled
V1ScenarioRun(c) ==
    /\ c \in ReturnedSet
    /\ convs[c].system = SysVicuna
    /\ convs[c].sep = Space
    /\ convs[c].sep2 = EOS
    /\ History(c) = V1ScenarioHistory
    /\ PromptedOn(c)

\* C1: a clone of template "v1" with the five turns of the scenario appended in
\* order assembles to exactly the system preamble followed by
\* " USER: <image>\nDescribe it. ASSISTANT: It is red.</s>USER: What shape?
\* ASSISTANT: It is square.</s>ASSISTANT:", with nothing after the last colon.
C1_V1Scenario ==
    \A c \in held :
        V1ScenarioRun(c) => last.kind = "str" /\ last.val = SysVicuna \o ExpectedV1Tail

C1_Witness == \E c \in held : V1ScenarioRun(c)

\* the history of the plain scenario
PlainScenarioHistory == <<<<Empty, Image>>, <<Empty, ARedBlock>>>>

ExpectedPlain ==
    <<"<", "i", "m", "a", "g", "e", ">", "\n", "A", " ", "r", "e", "d", " ", "b", "l",
      "o", "c", "k", ".", "\n">>

\* a clone of template "plain" holding the scenario's two turns, just assembled
PlainScenarioRun(c) ==
    /\ c \in ReturnedSet
    /\ convs[c].system = Empty
    /\ convs[c].sep = Newline
    /\ convs[c].sep_style = PLAIN
    /\ History(c) = PlainScenarioHistory
    /\ PromptedOn(c)

\* C2: a clone of template "plain" with ("", "<image>") and ("", "A red block.")
\* appended in this order assembles to exactly "<image>\nA red block.\n".
C2_PlainScenario ==
    \A c \in held :
        PlainScenarioRun(c) => last.kind = "str" /\ last.val = ExpectedPlain

C2_Witness == \E c \in held : PlainScenarioRun(c)

\* the ids of the inner lists the messages list of c holds
EntryIds(c) == {lists[convs[c].messages][i] : i \in 1..Len(lists[convs[c].messages])}

\* a and b share no messages list and no inner list
NothingShared(a, b) ==
    /\ convs[a].messages # convs[b].messages
    /\ EntryIds(a) \cap EntryIds(b) = {}

\* an append_message call on one Conversation leaves the history and the prompt
\* of every other Conversation as they were
AppendLeavesOthers ==
    last'.op = "append_message" =>
        \A d \in ConvIds \ {last'.self} :
            /\ History(d)' = History(d)
            /\ Prompt(d)' = Prompt(d)

\* C3: clone independence. No two Conversation objects, a copy and its source
\* among them, share a messages list or a turn entry, and an append_message on
\* either never changes the history or the assembled prompt of the other.
C3_CloneIndependence ==
    /\ [](\A a \in ConvIds : \A b \in ConvIds \ {a} : NothingShared(a, b))
    /\ [][AppendLeavesOthers]_vars

\* a lookup result a and a copy b made from it, after an append on one of them
C3_Witness ==
    \E a \in ReturnedSet : \E b \in held \ ReturnedSet :
        /\ convs[b].system = convs[a].system
        /\ last.op = "append_message"
        /\ last.self \in {a, b}
        /\ History(a) # History(b)

\* C4: every registered prototype keeps the field values it was registered with
\* and its empty history, whatever the callers do with the Conversations the
\* lookups returned; and no lookup returns a prototype itself.
C4_PrototypesUntouched ==
    /\ conv_templates = TemplateTable
    /\ convs[1] = conv_llava_plain
    /\ convs[2] = conv_vicuna_v1
    /\ \A p \in Prototypes : History(p) = <<>>
    /\ ReturnedSet \cap Prototypes = {}

\* a returned Conversation with turns appended, a copy of one, a dictionary taken
\* and a prompt assembled
C4_Witness ==
    /\ \E c \in ReturnedSet : History(c) # <<>>
    /\ held \ ReturnedSet # {}
    /\ snap # NoDict
    /\ last.op = "get_prompt"

\* C5: no two lookups return the same object, whether they name the same
\* template or different ones.
C5_LookupsDistinct ==
    \A i \in 1..Len(returned) : \A j \in 1..Len(returned) :
        i # j => returned[i] # returned[j]

\* two lookups of one name, with a call on the first result in between
C5_Witness ==
    /\ Len(returned) >= 2
    /\ convs[returned[1]].system = convs[returned[2]].system
    /\ History(returned[1]) # <<>>

\* sub occurs in s
Contains(s, sub) ==
    \E i \in 1..(Len(s) - Len(sub) + 1) : SubSeq(s, i, i + Len(sub) - 1) = sub

\* the latest call was a lookup of a name the table does not hold
UnknownLookup == last.op = "get_conv_template" /\ ~Registered(last.arg)

\* the lookup of an unknown name raised ValueError naming every registered
\* template and returned nothing
UnknownLookupRaises ==
    UnknownLookup =>
        /\ last.kind = "ValueError"
        /\ last.ref = 0
        /\ \A i \in 1..Len(conv_templates) :
               Contains(last.val, ReprStr(conv_templates[i].name))

\* the lookup of an unknown name changes nothing
UnknownLookupFrame ==
    UnknownLookup' =>
        UNCHANGED <<convs, lists, entries, conv_templates, held, returned>>

\* C6: get_conv_template of a name that is not in the table raises ValueError
\* with a message listing all registered names, returns no Conversation and
\* leaves the table, the prototypes and every other object unchanged.
C6_UnknownTemplate == []UnknownLookupRaises /\ [][UnknownLookupFrame]_vars

\* an unknown name looked up while a caller holds a Conversation with a turn
C6_Witness == UnknownLookup /\ \E c \in held : History(c) # <<>>

\* get_prompt was just called on a TWO or VICUNA Conversation without sep2
PromptedWithoutSep2(c) ==
    /\ PromptedOn(c)
    /\ convs[c].sep_style \in {TWO, VICUNA}
    /\ convs[c].sep2 = None

\* C7: with style TWO or VICUNA and sep2 absent, get_prompt raises the
\* missing-separator ValueError for every system text and every history, the
\* empty one included; it returns no string.
C7_MissingSep2Raises ==
    \A c \in held :
        PromptedWithoutSep2(c) =>
            last.kind = "ValueError" /\ last.val = Sep2RequiredMsg

\* the alias style, a system text, a separator and a history of two turns
C7_Witness ==
    \E c \in held :
        /\ PromptedWithoutSep2(c)
        /\ convs[c].sep_style = VICUNA
        /\ convs[c].system # Empty
        /\ convs[c].sep # None
        /\ Len(History(c)) = 2

\* C8 (as claimed): with style TWO or VICUNA and sep absent, get_prompt fails,
\* for every system text and every history.
C8_MissingSepRaises ==
    \A c \in held :
        (/\ PromptedOn(c)
         /\ convs[c].sep_style \in {TWO, VICUNA}
         /\ convs[c].sep = None) => last.kind # "str"

\* C9: two get_prompt calls on one Conversation with no other call in between
\* have the same outcome: the same string, or the same error.
C9_Deterministic == prev # NoCall => prev.kind = last.kind /\ prev.val = last.val

\* get_prompt called twice in a row on a Conversation with turns
C9_Witness ==
    /\ prev # NoCall
    /\ prev.kind = "str"
    /\ History(prev.self) # <<>>
    /\ convs[prev.self].system # Empty

\* a get_prompt call leaves every object as it was
GetPromptFrame == last'.op = "get_prompt" => UNCHANGED <<convs, lists, entries>>

\* C10: get_prompt changes no field of the Conversation (system, roles, the
\* history and each turn in it, offset, style, sep, sep2, the stop criteria),
\* when it returns a string and when it raises.
C10_GetPromptWritesNothing == [][GetPromptFrame]_vars

\* get_prompt has raised on a Conversation with a system text and turns
C10_Witness ==
    \E c \in held :
        /\ PromptedOn(c)
        /\ last.kind = "ValueError"
        /\ convs[c].system # Empty
        /\ History(c) # <<>>

\* get_prompt was just called on a TWO or VICUNA Conversation with both
\* separators set
PromptedWithBothSeps(c) ==
    /\ PromptedOn(c)
    /\ convs[c].sep_style \in {TWO, VICUNA}
    /\ convs[c].sep # None
    /\ convs[c].sep2 # None

\* the turns of Branch A as the rule words them: a turn is the open marker
\* only when its content is absent
RECURSIVE RuleTwoTurns(_, _, _, _)
RuleTwoTurns(messages, i, sep, sep2) ==
    IF i >= Len(messages)
    THEN <<>>
    ELSE (IF messages[i + 1][2] # None
          THEN messages[i + 1][1] \o ColonSpace \o messages[i + 1][2]
               \o (IF i % 2 = 0 THEN sep ELSE sep2)
          ELSE messages[i + 1][1] \o Colon)
         \o RuleTwoTurns(messages, i + 1, sep, sep2)

RuleTwoPrompt(system, messages, sep, sep2) ==
    (IF system # Empty THEN system \o sep ELSE Empty)
    \o RuleTwoTurns(messages, 0, sep, sep2)

\* C11 (as claimed): for style TWO or VICUNA with sep and sep2 set, get_prompt
\* returns system + sep (when system is non-empty) followed by, per turn i,
\* "<role>: <content>" plus sep (i even) or sep2 (i odd) when the content is
\* present and "<role>:" when it is absent, with nothing trimmed or appended.
C11_BranchARule ==
    \A c \in held :
        PromptedWithBothSeps(c) =>
            /\ last.kind = "str"
            /\ last.val = RuleTwoPrompt(convs[c].system, History(c), convs[c].sep,
                                        convs[c].sep2)

\* how many times the non-empty text sep ends s, one after the other
RECURSIVE TrailingSeps(_, _)
TrailingSeps(s, sep) ==
    IF endswith(s, sep)
    THEN 1 + TrailingSeps(SubSeq(s, 1, Len(s) - Len(sep)), sep)
    ELSE 0

\* every character of s is whitespace
AllSpace(s) == \A i \in 1..Len(s) : IsSpace(s[i])

\* get_prompt was just called on a plain Conversation whose sep is a non-empty
\* string
PromptedPlain(c) ==
    /\ PromptedOn(c)
    /\ convs[c].sep_style = PLAIN
    /\ convs[c].sep \notin {None, Empty}

\* C12 (as claimed): for the plain style the string get_prompt returns ends
\* with exactly one trailing sep, for every system, sep and history.
C12_ExactlyOneTrailingSep ==
    \A c \in held :
        PromptedPlain(c) =>
            last.kind = "str" /\ TrailingSeps(last.val, convs[c].sep) = 1

\* C12 (amended): for the plain style and a non-empty sep the string get_prompt
\* returns ends with sep, for every system and history; it ends with exactly
\* one sep when sep is whitespace only.
C12_EndsWithSep ==
    \A c \in held :
        PromptedPlain(c) =>
            /\ last.kind = "str"
            /\ TrailingSeps(last.val, convs[c].sep) >= 1
            /\ AllSpace(convs[c].sep) => TrailingSeps(last.val, convs[c].sep) = 1

\* a newline separator, a system text and a last content that ends in a space
C12_Witness ==
    \E c \in held :
        /\ PromptedPlain(c)
        /\ convs[c].sep = Newline
        /\ convs[c].system # Empty
        /\ Len(History(c)) = 2
        /\ History(c)[2][2] = HiSpace

\* a step changes the history of a Conversation only by an append_message on
\* it, which puts the pair of the call after the turns that were there
HistoryGrowsByAppends ==
    \A c \in ConvIds :
        IF last'.op = "append_message" /\ last'.self = c
        THEN History(c)' = Append(History(c), last'.arg)
        ELSE History(c)' = History(c)

\* C13: the history is the initial history followed by the appended (role,
\* content) pairs in call order: each append_message adds its pair at the end,
\* the earlier entries keep position and value, identical pairs are all kept.
C13_HistoryIsAppendLog == [][HistoryGrowsByAppends]_vars

\* the same pair appended twice, both kept
C13_Witness ==
    \E c \in held :
        /\ last.op = "append_message"
        /\ last.self = c
        /\ Len(History(c)) = 2
        /\ History(c)[1] = History(c)[2]

\* the fields of c other than the history are the same after the step
OtherFieldsKept(c) ==
    /\ convs'[c].system = convs[c].system
    /\ convs'[c].roles = convs[c].roles
    /\ convs'[c].offset = convs[c].offset
    /\ convs'[c].sep_style = convs[c].sep_style
    /\ convs'[c].sep = convs[c].sep
    /\ convs'[c].sep2 = convs[c].sep2
    /\ convs'[c].stop_str = convs[c].stop_str
    /\ convs'[c].stop_token_ids = convs[c].stop_token_ids

AppendFrame ==
    last'.op = "append_message" =>
        /\ Len(convs') = Len(convs)
        /\ \A c \in ConvIds : OtherFieldsKept(c)

\* C14: append_message changes only the history: system, roles, offset, style,
\* sep, sep2 and the stop criteria are the same after the call as before it.
C14_AppendChangesOnlyHistory == [][AppendFrame]_vars

\* a second turn appended to a Conversation with a system text
C14_Witness ==
    \E c \in held :
        /\ last.op = "append_message"
        /\ last.self = c
        /\ convs[c].system # Empty
        /\ Len(History(c)) = 2

\* C15: append_message validates nothing and never fails: whatever the role
\* and whatever the turns before, the call returns and its pair is the last
\* turn of the history; a role that is none of the two labels, the same role
\* twice in a row and a turn after an absent-content turn are all accepted.
C15_AppendAcceptsAnything ==
    last.op = "append_message" =>
        /\ last.kind = "None"
        /\ History(last.self) # <<>>
        /\ History(last.self)[Len(History(last.self))] = last.arg

\* a clone of "plain" (roles "", "") holding two ASSISTANT prompt markers
C15_Witness ==
    \E c \in held :
        /\ last.op = "append_message"
        /\ last.self = c
        /\ convs[c].roles = <<Empty, Empty>>
        /\ History(c) = <<<<ASSISTANT, None>>, <<ASSISTANT, None>>>>

\* the dictionary just taken of c holds every field with the value of the field,
\* the turns in order, and a style name that no other style has
DictFaithful ==
    \A c \in held :
        (last.op = "dict" /\ last.self = c) =>
            /\ snap.system = convs[c].system
            /\ snap.roles = convs[c].roles
            /\ snap.messages = convs[c].messages
            /\ SnapHistory(snap) = History(c)
            /\ snap.offset = convs[c].offset
            /\ snap.sep = convs[c].sep
            /\ snap.sep2 = convs[c].sep2
            /\ snap.stop_str = convs[c].stop_str
            /\ snap.stop_token_ids = convs[c].stop_token_ids
            /\ snap.sep_style \in STRING
            /\ \A style \in SeparatorStyle :
                   StyleName(style) = snap.sep_style <=> style = convs[c].sep_style

\* a dict call leaves every object as it was
DictFrame == last'.op = "dict" => UNCHANGED <<convs, lists, entries>>

\* C16: the dictionary of dict() is a lossless projection: it holds system,
\* roles, the turns in order, offset, sep, sep2 and both stop criteria with the
\* values of the fields and the style as a name that belongs to this style
\* alone, so Conversations that differ in a field differ in their
\* dictionaries; and taking it changes no field.
C16_DictLossless == []DictFaithful /\ [][DictFrame]_vars

\* a dictionary of a VICUNA Conversation with two turns and non-default
\* offset and stop criteria
C16_Witness ==
    \E c \in held :
        /\ last.op = "dict"
        /\ last.self = c
        /\ convs[c].sep_style = VICUNA
        /\ convs[c].offset = 1
        /\ convs[c].stop_str = EOS
        /\ Len(History(c)) = 2

\* the Conversation a lookup has just returned has no turn, and its prompt is
\* the prompt of the registered template
LookupFresh ==
    (last.op = "get_conv_template" /\ last.kind = "Conversation") =>
        /\ last.ref \notin Prototypes
        /\ History(last.ref) = <<>>
        /\ Prompt(last.ref) = Prompt(TemplateRef(last.arg))

\* a prompt assembled on a returned Conversation is the prompt of its own
\* fields and its own history
WorkerPromptOwn ==
    \A w \in ReturnedSet :
        PromptedOn(w) =>
            /\ last.kind = Prompt(w).kind
            /\ last.val = Prompt(w).val

\* one call of any worker: the history of a returned Conversation grows by the
\* pair of an append made on it; no other call changes it or a field, and an
\* append on another Conversation leaves its prompt as it was
WorkerStep ==
    \A w \in ReturnedSet :
        IF last'.op = "append_message" /\ last'.self = w
        THEN History(w)' = Append(History(w), last'.arg)
        ELSE /\ History(w)' = History(w)
             /\ convs'[w] = convs[w]
             /\ last'.op = "append_message" => Prompt(w)' = Prompt(w)

\* C17: worker isolation. Workers are the callers of the interleaved calls:
\* each looks a template up and appends to and prompts on the Conversation it
\* received. Under every interleaving a lookup returns a Conversation without
\* turns, the history of a worker's Conversation is exactly the pairs appended
\* to it, and its prompt is assembled from that history alone; no call on
\* another Conversation changes either.
C17_WorkerIsolation ==
    /\ [](LookupFresh /\ WorkerPromptOwn)
    /\ [][WorkerStep]_vars

\* two workers hold Conversations of the same template with different turns,
\* and one of them has just assembled its prompt
C17_Witness ==
    \E a \in ReturnedSet : \E b \in ReturnedSet \ {a} :
        /\ convs[a].system = convs[b].system
        /\ History(a) # <<>>
        /\ History(b) # <<>>
        /\ History(a) # History(b)
        /\ PromptedOn(a)
        /\ Prompt(a) # Prompt(b)

\* an assignment under a name the table has raises and leaves the table as
\* it was
RegisterKeepsExisting ==
    (last'.op = "setitem" /\ Registered(last'.arg)) =>
        /\ last'.kind # "None"
        /\ conv_templates' = conv_templates

\* C18: registering a prototype under a name the template table already has
\* fails with an error and leaves the existing entry in place; an existing
\* entry is never silently overwritten.
C18_RegisterExistingFails == [][RegisterKeepsExisting]_vars

\* the last turn of a non-empty history, its zero-based index, and the prompt
\* of the turns before it
LastTurn(c) == History(c)[Len(History(c))]

LastIndex(c) == Len(History(c)) - 1

PromptBefore(c) ==
    get_prompt(convs[c].system, SubSeq(History(c), 1, LastIndex(c)),
               convs[c].sep_style, convs[c].sep, convs[c].sep2).val

\* C19 (as claimed): absent content is a sentinel distinct from the empty
\* string. In the two-separator style a last turn whose content is the empty
\* string adds "<role>: " and the separator of its index parity to the prompt
\* of the turns before it, and a last turn whose content is absent adds the
\* open marker "<role>:".
C19_EmptyContentIsPresent ==
    \A c \in held :
        (PromptedWithBothSeps(c) /\ History(c) # <<>>) =>
            /\ LastTurn(c)[2] = Empty =>
                   last.val = PromptBefore(c) \o LastTurn(c)[1] \o ColonSpace
                              \o (IF LastIndex(c) % 2 = 0 THEN convs[c].sep
                                  ELSE convs[c].sep2)
            /\ LastTurn(c)[2] = None =>
                   last.val = PromptBefore(c) \o LastTurn(c)[1] \o Colon

PromptedChatml(c) ==
    /\ PromptedOn(c)
    /\ convs[c].sep_style = CHATML
    /\ convs[c].sep # None

\* the turns of the markup-delimited style as the rule words them: a turn is
\* "<role>\n" alone only when its content is absent
RECURSIVE RuleChatmlTurns(_, _, _)
RuleChatmlTurns(messages, i, sep) ==
    IF i >= Len(messages)
    THEN <<>>
    ELSE (IF messages[i + 1][2] # None
          THEN messages[i + 1][1] \o Newline \o messages[i + 1][2] \o sep
               \o (IF i + 1 < Len(messages) THEN Newline ELSE Empty)
          ELSE messages[i + 1][1] \o Newline)
         \o RuleChatmlTurns(messages, i + 1, sep)

\* C21 (as claimed): for style CHATML, get_prompt returns system (when
\* non-empty) with no separator after it, followed by, per turn,
\* "<role>\n<content>" plus sep plus a newline unless the turn is the last one
\* when the content is present, and "<role>\n" when it is absent, with nothing
\* trimmed or appended.
C21_ChatmlRule ==
    \A c \in held :
        PromptedChatml(c) =>
            /\ last.kind = "str"
            /\ last.val = convs[c].system
                          \o RuleChatmlTurns(History(c), 0, convs[c].sep)

\* the styles without a branch of their own in get_prompt
FallbackStyles == SeparatorStyle \ {TWO, VICUNA, PLAIN, CHATML}

\* get_prompt was the last call, on c, of a fallback style with sep set
PromptedFallback(c) ==
    /\ PromptedOn(c)
    /\ convs[c].sep_style \in FallbackStyles
    /\ convs[c].sep # None

\* the turns of a fallback style as the rule words them: a turn is "<role>"
\* alone only when its content is absent
RECURSIVE RuleFallbackTurns(_, _, _)
RuleFallbackTurns(messages, i, sep) ==
    IF i >= Len(messages)
    THEN <<>>
    ELSE (IF messages[i + 1][2] # None
          THEN messages[i + 1][1] \o messages[i + 1][2] \o sep
          ELSE messages[i + 1][1])
         \o RuleFallbackTurns(messages, i + 1, sep)

\* C22 (as claimed): for every style other than TWO, VICUNA, PLAIN and CHATML,
\* get_prompt returns system + sep (when system is non-empty) followed by
\* "<role><content>" + sep for a present-content turn and "<role>" for an
\* absent-content one, with nothing trimmed or appended; and every such style
\* gives this same result.
C22_FallbackRule ==
    \A c \in held :
        PromptedFallback(c) =>
            /\ last.kind = "str"
            /\ last.val = (IF convs[c].system # Empty
                           THEN convs[c].system \o convs[c].sep ELSE Empty)
                          \o RuleFallbackTurns(History(c), 0, convs[c].sep)
            /\ \A style \in FallbackStyles :
                   get_prompt(convs[c].system, History(c), style, convs[c].sep,
                              convs[c].sep2).val = last.val

\* a and b have the same system, sep, sep2 and history
SameTextFields(a, b) ==
    /\ convs[a].system = convs[b].system
    /\ convs[a].sep = convs[b].sep
    /\ convs[a].sep2 = convs[b].sep2
    /\ History(a) = History(b)

\* the outcome of the get_prompt call just made is the outcome of get_prompt
\* on b
SameOutcomeAs(b) ==
    /\ last.kind = Prompt(b).kind
    /\ last.val = Prompt(b).val

\* C23: the alias style VICUNA is handled exactly like TWO: two Conversations
\* that differ only in having style TWO against style VICUNA give the same
\* get_prompt outcome, the same string or the same missing-sep2 error.
C23_VicunaIsTwo ==
    \A a \in held : \A b \in held \ {a} :
        (/\ PromptedOn(a)
         /\ IsTwoStyle(convs[a].sep_style)
         /\ convs[b].sep_style = Alias(convs[a].sep_style)
         /\ SameTextFields(a, b)) => SameOutcomeAs(b)

\* a TWO and a VICUNA Conversation with the same two turns, and a prompt
\* assembled on one of them
C23_Witness ==
    \E a \in held : \E b \in held \ {a} :
        /\ PromptedOn(a)
        /\ convs[a].sep_style = VICUNA
        /\ convs[b].sep_style = TWO
        /\ SameTextFields(a, b)
        /\ Len(History(a)) = 2
        /\ last.kind = "str"
        /\ convs[a].system # Empty

\* C24: the assembled prompt does not depend on offset, stop_str,
\* stop_token_ids or roles: two Conversations equal in system, style, sep, sep2
\* and history give the same get_prompt outcome whatever their other fields
\* are.
C24_UnreadFields ==
    \A a \in held : \A b \in held \ {a} :
        (/\ PromptedOn(a)
         /\ convs[a].sep_style = convs[b].sep_style
         /\ SameTextFields(a, b)) => SameOutcomeAs(b)

\* two Conversations with the same two turns that differ in offset, and a
\* prompt assembled on one of them
C24_Witness ==
    \E a \in held : \E b \in held \ {a} :
        /\ PromptedOn(a)
        /\ convs[a].sep_style = convs[b].sep_style
        /\ SameTextFields(a, b)
        /\ convs[a].offset # convs[b].offset
        /\ Len(History(a)) = 2
        /\ last.kind = "str"

\* get_prompt was the last call, on c, whose sep is a string and whose sep2 is
\* set if its style is the two-separator style
PromptedWellConfigured(c) ==
    /\ PromptedOn(c)
    /\ convs[c].sep # None
    /\ IsTwoStyle(convs[c].sep_style) => convs[c].sep2 # None

\* C25: the missing-sep2 error is the only failure of get_prompt on a
\* Conversation whose sep is a string, as the field is declared. For every
\* style outside TWO/VICUNA, with sep2 set or absent, and for TWO/VICUNA with
\* sep2 set, get_prompt returns a string for every history of turns with
\* string roles and string or absent contents, consecutive absent-content
\* turns and absent-content turns in a non-final position included; and when
\* it does not return a string, the style is TWO or VICUNA, sep2 is absent
\* and the error is that ValueError.
C25_OnlyFailureIsMissingSep2 ==
    \A c \in held :
        /\ PromptedWellConfigured(c) => last.kind = "str"
        /\ (PromptedOn(c) /\ convs[c].sep # None /\ last.kind # "str") =>
               /\ IsTwoStyle(convs[c].sep_style)
               /\ convs[c].sep2 = None
               /\ last.kind = "ValueError"
               /\ last.val = Sep2RequiredMsg

\* a prompt returned for a style outside TWO/VICUNA without sep2, on a history
\* of two absent-content turns
C25_Witness ==
    \E c \in held :
        /\ PromptedWellConfigured(c)
        /\ convs[c].sep_style = PLAIN
        /\ convs[c].sep2 = None
        /\ History(c) = <<<<USER, None>>, <<ASSISTANT, None>>>>
        /\ last.kind = "str"

\* a and b have the same style, sep and sep2
SameSeparators(a, b) ==
    /\ a.sep_style = b.sep_style
    /\ a.sep = b.sep
    /\ a.sep2 = b.sep2

\* the Conversation a lookup has just returned has no turn, offset 0 and the
\* style, sep and sep2 of the prototype registered under the name; one
\* returned for "v1" has sep2 set
LookupStartsClean ==
    (last.op = "get_conv_template" /\ last.kind = "Conversation") =>
        /\ History(last.ref) = <<>>
        /\ convs[last.ref].offset = 0
        /\ SameSeparators(convs[last.ref], convs[TemplateRef(last.arg)])
        /\ last.arg = NameV1 => convs[last.ref].sep2 # None

\* no call changes the style, sep or sep2 of a Conversation, and a copy has
\* those of its source
SeparatorsKept ==
    /\ \A c \in ConvIds : SameSeparators(convs'[c], convs[c])
    /\ last'.op = "copy" => SameSeparators(convs'[last'.ref], convs[last'.self])

\* every Conversation in the hands of a caller has the style, sep and sep2 of
\* a prototype, and get_prompt on it does not raise
HeldAsPrototype ==
    \A c \in held :
        /\ \E p \in Prototypes : SameSeparators(convs[c], convs[p])
        /\ IsTwoStyle(convs[c].sep_style) => convs[c].sep2 # None
        /\ PromptedOn(c) => last.kind = "str"

\* C26 (as claimed): a Conversation obtained from get_conv_template starts with an empty
\* history and offset 0, and append_message, copy, dict and get_prompt leave
\* its style, sep and sep2 those of the prototype; so one obtained from "v1"
\* has sep2 set in every state and get_prompt on it never raises the
\* missing-sep2 error.
C26_TemplateSeparatorsKept ==
    /\ [](LookupStartsClean /\ HeldAsPrototype)
    /\ [][SeparatorsKept]_vars

\* C27: default_conversation is the registered "v1" prototype itself, not a
\* clone of it: the Conversation a lookup of "v1" returns has every turn that
\* was appended through default_conversation before the lookup.
C27_DefaultIsPrototype ==
    /\ TemplateRef(NameV1) = default_conversation
    /\ (last.op = "get_conv_template" /\ last.arg = NameV1) =>
           /\ last.kind = "Conversation"
           /\ History(last.ref) = History(default_conversation)

\* a lookup of "v1" that returned a Conversation with a turn in it
C27_Witness ==
    /\ last.op = "get_conv_template"
    /\ last.arg = NameV1
    /\ History(last.ref) # <<>>
    /\ History(default_conversation) # <<>>

\* a dictionary has been taken
SnapTaken == snap.messages # 0

\* the dictionary shows the history its Conversation has now
SnapShowsLiveHistory ==
    SnapTaken =>
        \E c \in held : snap.messages = convs[c].messages
                        /\ SnapHistory(snap) = History(c)

\* an append on the Conversation a dictionary was taken of adds its pair to
\* the history the dictionary shows; an append on any other Conversation, a
\* copy among them, leaves that history as it was
SnapFollowsAppends ==
    (SnapTaken /\ last'.op = "append_message") =>
        /\ snap' = snap
        /\ IF convs[last'.self].messages = snap.messages
           THEN SnapHistory(snap)' = Append(SnapHistory(snap), last'.arg)
           ELSE SnapHistory(snap)' = SnapHistory(snap)

\* C28: the dictionary of dict() holds the live messages list of the
\* Conversation, not a copy: a turn appended after the dictionary was taken
\* appears in it, and a turn appended to another Conversation, such as a copy
\* or the source of a copy, does not.
C28_DictHoldsLiveList ==
    /\ []SnapShowsLiveHistory
    /\ [][SnapFollowsAppends]_vars

\* a dictionary taken of a Conversation before its last turn was appended,
\* with a copy of the Conversation that has not got the turn
C28_Witness ==
    \E c \in held : \E b \in held \ (ReturnedSet \cup {c}) :
        /\ snap.messages = convs[c].messages
        /\ last.op = "append_message"
        /\ last.self = c
        /\ SnapHistory(snap) = <<last.arg>>
        /\ History(b) = <<>>

\* s begins with p
IsPrefix(p, s) == Len(p) <= Len(s) /\ SubSeq(s, 1, Len(p)) = p

\* an append on a two-separator Conversation with sep2 set: the prompt
\* get_prompt returns before it is a prefix of the prompt it returns after it,
\* and with sep a string there is a prompt before it and after it
AppendExtendsPrompt ==
    \A c \in held :
        (/\ last'.op = "append_message"
         /\ last'.self = c
         /\ IsTwoStyle(convs[c].sep_style)
         /\ convs[c].sep2 # None) =>
            /\ convs[c].sep # None =>
                   Prompt(c).kind = "str" /\ Prompt(c)'.kind = "str"
            /\ (Prompt(c).kind = "str" /\ Prompt(c)'.kind = "str") =>
                   IsPrefix(Prompt(c).val, Prompt(c)'.val)

\* C29: in the two-separator style with sep2 set, assembly is
\* prefix-monotonic: for every turn appended with append_message, the prompt
\* get_prompt returns before the append is a prefix of the prompt it returns
\* after it, so the prompt only grows at its end.
C29_PrefixMonotonic == [][AppendExtendsPrompt]_vars

\* a second turn appended to a two-separator Conversation with a system text,
\* whose prompt is longer than the system text and its separator
C29_Witness ==
    \E c \in held :
        /\ last.op = "append_message"
        /\ last.self = c
        /\ IsTwoStyle(convs[c].sep_style)
        /\ convs[c].sep2 # None
        /\ convs[c].sep # None
        /\ convs[c].system # Empty
        /\ Len(History(c)) = 2
        /\ History(c)[1][2] = Hi
        /\ Prompt(c).kind = "str"
        /\ Len(Prompt(c).val) > Len(convs[c].system) + Len(convs[c].sep) + 2

====
